---------------------------- MODULE Spec2Model ----------------------------
(***************************************************************************)
(* A model of russcip's entity views (variable.rs, col.rs) and heuristic   *)
(* plugin interface (heuristic.rs).                                        *)
(*                                                                         *)
(* Number representations                                                  *)
(*   u64 / u32   little-endian tuples of 16-bit words (4 words / 2 words), *)
(*               so that the full width of HeurTiming(u64) and of the      *)
(*               native 32-bit mask is kept.                               *)
(***************************************************************************)
EXTENDS Integers, Sequences, FiniteSets, TLC

VARIABLES
    \* ---- HeurTiming values built through the public interface
    timing,        \* the mask being built (`let mut timing = ...`)
    rhsMask,       \* right operand of the last | or |=
    prevTiming,    \* value of `timing` before the last operation
    maskOp,        \* last operation: "new" | "bitor" | "bitor_assign"
    maskOps,       \* number of operations performed
    \* ---- one accessor call on a view
    accName,       \* the accessor called last ("none" before the first call)
    accNative,     \* what the native getter returned to it
    accOut,        \* what the accessor gave its caller
    \* ---- one solve with one registered heuristic
    hUser,         \* the registered Heuristic implementation ("none": not yet)
    hTiming,       \* the HeurTiming given at registration
    hNativeMask,   \* the 32-bit timing mask the engine holds for it
    sPhase,        \* "ProblemBuilding" | "Solving" | "Solved" | "Panicked"
    pc,            \* who runs: "engine" | "callback"
    ePoint,        \* the timing point the solve loop is at
    eNode,         \* number of the node being processed (0: none yet)
    nSols,         \* solutions in the engine's storage
    incumbent,     \* who supplied the best one: "none" | "engine" | "heur"
    firedAt,       \* timing points at which execute was invoked
    hCalls,        \* number of invocations of execute
    hArgTiming,    \* the `timing` argument of the last invocation
    hRet,          \* what the last execute returned ("none": never ran,
                   \* "Panic": it panicked)
    hNativeRes,    \* native result last handed to the engine ("none")
    cbOutcome,     \* the last callback: "none" | "returned" | "panicked"
    nSolsBefore,   \* nSols when the last callback began
    nSolsAfter,    \* nSols when the user's execute had returned
    incBefore,     \* incumbent when the last callback began
    \* ---- a session, its engine context and the views derived from it
    mPhase,        \* "ProblemBuilding" | "Solving" | "Solved"
    ctl,           \* who runs: "caller" | "engine" | "callback"
    modelAlive,    \* the caller still holds the session (Model) value
    strong,        \* strong count of the Rc<ScipPtr>
    teardowns,     \* how often the engine context has been torn down
    nvars,         \* the engine's variable objects, in creation order
    given,         \* the arguments of each add_var call, in call order
    ncols,         \* the engine's column objects, in creation order
    conss,         \* the constraints added, in call order
    hasHdlr,       \* an event handler for FIRST_LP_SOLVED is registered
    hdlrRuns,      \* how often its execute has been entered
    views,         \* live views per native locator: locator -> count
    opName,        \* the last operation on a view ("none")
    opView,        \* the locator of the view it was called on
    opOther,       \* the locator of its second operand (eq)
    opOut,         \* what it returned
    opInLP,        \* is_in_lp() of that view at the call
    opReadCol,     \* the call read the native column locator
    \* ---- the session values of one engine instance and their phase tags
    sess,          \* the live session values: [tag, holder]
    ePhase,        \* the engine's stage, as a phase tag
    pctl,          \* who runs: "caller" | "engine" | "callback"
    pOp,           \* the last operation called on a session: [op, tag]
    pSolves,       \* solve() calls so far
    pCalls,        \* callbacks entered in the current solve
    pActive        \* the plugins whose execute has been entered and has not
                   \* returned, outermost first

maskVars == <<timing, rhsMask, prevTiming, maskOp, maskOps>>
accVars == <<accName, accNative, accOut>>

heurVars == <<hUser, hTiming, hNativeMask, sPhase, pc, ePoint, eNode, nSols,
              incumbent, firedAt, hCalls, hArgTiming, hRet, hNativeRes,
              cbOutcome, nSolsBefore, nSolsAfter, incBefore>>

viewVars == <<mPhase, ctl, modelAlive, strong, teardowns, nvars, given, ncols,
              conss, hasHdlr, hdlrRuns, views, opName, opView, opOther, opOut,
              opInLP, opReadCol>>

phaseVars == <<sess, ePhase, pctl, pOp, pSolves, pCalls, pActive>>

vars == <<maskVars, accVars, heurVars, viewVars, phaseVars>>

---------------------------------------------------------------------------
(* Bounds of the model                                                     *)

\* number of | / |= operations applied to one mask
MaxMaskOps == 2

\* native getters return integers in -MaxNative .. MaxNative
MaxNative == 6

\* nodes of the search tree processed in one solve
MaxNodes == 2

\* invocations of the registered heuristic in one solve
MaxCalls == 3

\* solutions the engine finds by its own means in one solve
MaxEngineSols == 1

\* add_var calls on one session
MaxVars == 2

\* views alive at the same time
MaxViews == 3

\* variables added to a session that is then solved
MaxSessionVars == 2

\* add_cons calls on one session
MaxCons == 1

\* solve() calls on one engine instance
MaxSolves == 2

---------------------------------------------------------------------------
(* Machine words                                                           *)

RECURSIVE Pow2(_)
Pow2(n) == IF n = 0 THEN 1 ELSE 2 * Pow2(n - 1)

\* bit k (0-based) of the 16-bit word w
WordBit(w, k) == (w \div Pow2(k)) % 2

\* bitwise OR of two 16-bit words, bit by bit
RECURSIVE BitOrWord(_, _)
BitOrWord(a, b) ==
    IF a = 0 THEN b
    ELSE IF b = 0 THEN a
    ELSE (IF a % 2 = 1 \/ b % 2 = 1 THEN 1 ELSE 0)
         + 2 * BitOrWord(a \div 2, b \div 2)

\* bitwise AND of two 16-bit words, bit by bit
RECURSIVE BitAndWord(_, _)
BitAndWord(a, b) ==
    IF a = 0 \/ b = 0 THEN 0
    ELSE (IF a % 2 = 1 /\ b % 2 = 1 THEN 1 ELSE 0)
         + 2 * BitAndWord(a \div 2, b \div 2)

\* the positions of the bits set in a tuple of 16-bit words
Flags(m) == { b \in 0 .. (16 * Len(m) - 1) : WordBit(m[(b \div 16) + 1], b % 16) = 1 }

---------------------------------------------------------------------------
(* heuristic.rs: HeurTiming                                                *)

\* HeurTiming::BEFORE_NODE given the value of DURING_LP_LOOP
BEFORE_NODE_as_0x002 == <<2, 0, 0, 0>>

BEFORE_NODE         == <<1, 0, 0, 0>>      \* 0x001
DURING_LP_LOOP      == <<2, 0, 0, 0>>      \* 0x002
AFTER_LP_LOOP       == <<4, 0, 0, 0>>      \* 0x004
AFTER_LP_NODE       == <<8, 0, 0, 0>>      \* 0x008
AFTER_PSEUDO_NODE   == <<16, 0, 0, 0>>     \* 0x010
AFTER_LP_PLUNGE     == <<32, 0, 0, 0>>     \* 0x020
AFTER_PSEUDO_PLUNGE == <<64, 0, 0, 0>>     \* 0x040
DURING_PRICING_LOOP == <<128, 0, 0, 0>>    \* 0x080
BEFORE_PRESOL       == <<256, 0, 0, 0>>    \* 0x100
DURING_PRESOL_LOOP  == <<512, 0, 0, 0>>    \* 0x200
AFTER_PROP_LOOP     == <<1024, 0, 0, 0>>   \* 0x400

TimingNames ==
    { "BEFORE_NODE", "DURING_LP_LOOP", "AFTER_LP_LOOP", "AFTER_LP_NODE",
      "AFTER_PSEUDO_NODE", "AFTER_LP_PLUNGE", "AFTER_PSEUDO_PLUNGE",
      "DURING_PRICING_LOOP", "BEFORE_PRESOL", "DURING_PRESOL_LOOP",
      "AFTER_PROP_LOOP" }

\* the associated constant HeurTiming::<name>
HeurTimingConst(name) ==
    CASE name = "BEFORE_NODE"         -> BEFORE_NODE
      [] name = "DURING_LP_LOOP"      -> DURING_LP_LOOP
      [] name = "AFTER_LP_LOOP"       -> AFTER_LP_LOOP
      [] name = "AFTER_LP_NODE"       -> AFTER_LP_NODE
      [] name = "AFTER_PSEUDO_NODE"   -> AFTER_PSEUDO_NODE
      [] name = "AFTER_LP_PLUNGE"     -> AFTER_LP_PLUNGE
      [] name = "AFTER_PSEUDO_PLUNGE" -> AFTER_PSEUDO_PLUNGE
      [] name = "DURING_PRICING_LOOP" -> DURING_PRICING_LOOP
      [] name = "BEFORE_PRESOL"       -> BEFORE_PRESOL
      [] name = "DURING_PRESOL_LOOP"  -> DURING_PRESOL_LOOP
      [] name = "AFTER_PROP_LOOP"     -> AFTER_PROP_LOOP

\* impl BitOr for HeurTiming with & in place of |
bitor_and(self, rhs) == [i \in 1..4 |-> BitAndWord(self[i], rhs[i])]

\* impl BitOr for HeurTiming: HeurTiming(self.0 | rhs.0)
bitor(self, rhs) == [i \in 1..4 |-> BitOrWord(self[i], rhs[i])]

\* impl BitOrAssign for HeurTiming: self.0 |= rhs.0
bitor_assign(self, rhs) == [i \in 1..4 |-> BitOrWord(self[i], rhs[i])]

\* a conversion that keeps the low 16 bits only
From_HeurTiming_for_u32_low16(mask) == <<mask[1], 0>>

\* impl From<HeurTiming> for u32: mask.0 as u32 (keeps the low 32 bits)
From_HeurTiming_for_u32(mask) == <<mask[1], mask[2]>>

\* impl From<u32> for HeurTiming: HeurTiming(mask as u64) (zero extension)
From_u32_for_HeurTiming(mask) == <<mask[1], mask[2], 0, 0>>

\* 32-bit integers handed to From<u32>
U32Samples == { <<0, 0>>, <<1025, 0>>, <<65535, 65535>> }

\* the HeurTiming values a caller starts from
MaskInputs ==
    { HeurTimingConst(n) : n \in TimingNames }
    \cup { From_u32_for_HeurTiming(n) : n \in U32Samples }

\* no mask is being built
IdleMask ==
    /\ timing = BEFORE_NODE
    /\ rhsMask = BEFORE_NODE
    /\ prevTiming = BEFORE_NODE
    /\ maskOp = "new"
    /\ maskOps = 0

---------------------------------------------------------------------------
(* Values handed to the caller                                             *)

None == [tag |-> "None"]
Some(v) == [tag |-> "Some", val |-> v]
\* a plain (non-optional) return value
Value(v) == [tag |-> "Value", val |-> v]
\* the call did not return: an assertion failed
Panic == [tag |-> "Panic"]

\* `v as usize` for a signed native integer v: the 64-bit two's complement
\* pattern of v, as four 16-bit words
AsUsize(v) ==
    IF v >= 0 THEN <<v % 65536, (v \div 65536) % 65536, 0, 0>>
    ELSE <<65536 + v, 65535, 65535, 65535>>

NativeInts == (0 - MaxNative) .. MaxNative

---------------------------------------------------------------------------
(* col.rs / variable.rs: accessors that read one native integer.  The      *)
(* parameter is what the native getter (SCIPcolGet..., SCIPvarGetIndex)    *)
(* returned.                                                               *)

\* Variable::index: assert!(id >= 0); id as usize
Variable_index(id) == IF id >= 0 THEN Value(AsUsize(id)) ELSE Panic

\* Col::index: assert!(id >= 0); id as usize
Col_index(id) == IF id >= 0 THEN Value(AsUsize(id)) ELSE Panic

\* Col::var_probindex
Col_var_probindex(probindex) ==
    IF probindex < 0 THEN None ELSE Some(AsUsize(probindex))

\* Col::lp_pos with the test `pos <= 0`
Col_lp_pos_le(pos) == IF pos <= 0 THEN None ELSE Some(AsUsize(pos))

\* Col::lp_pos
Col_lp_pos(pos) == IF pos < 0 THEN None ELSE Some(AsUsize(pos))

\* Col::lp_depth
Col_lp_depth(depth) == IF depth < 0 THEN None ELSE Some(AsUsize(depth))

\* Col::n_non_zeros
Col_n_non_zeros(n_non_zeros) ==
    IF n_non_zeros >= 0 THEN Value(AsUsize(n_non_zeros)) ELSE Panic

\* Col::n_lp_non_zeros
Col_n_lp_non_zeros(n_lp_non_zeros) ==
    IF n_lp_non_zeros >= 0 THEN Value(AsUsize(n_lp_non_zeros)) ELSE Panic

\* Col::strong_branching_node: the node number is handed on as an i64
Col_strong_branching_node(node) == IF node < 0 THEN None ELSE Some(node)

\* Col::n_strong_branches
Col_n_strong_branches(n_strong_branches) ==
    IF n_strong_branches >= 0 THEN Value(AsUsize(n_strong_branches)) ELSE Panic

\* Col::age
Col_age(age) == IF age >= 0 THEN Value(AsUsize(age)) ELSE Panic

OptionAccessors ==
    {"Col::var_probindex", "Col::lp_pos", "Col::lp_depth"}
AssertAccessors ==
    {"Variable::index", "Col::index", "Col::n_non_zeros", "Col::n_lp_non_zeros",
     "Col::n_strong_branches", "Col::age"}
AccessorNames ==
    OptionAccessors \cup AssertAccessors \cup {"Col::strong_branching_node"}

Accessor(name, native) ==
    CASE name = "Variable::index"            -> Variable_index(native)
      [] name = "Col::index"                 -> Col_index(native)
      [] name = "Col::var_probindex"         -> Col_var_probindex(native)
      [] name = "Col::lp_pos"                -> Col_lp_pos(native)
      [] name = "Col::lp_depth"              -> Col_lp_depth(native)
      [] name = "Col::n_non_zeros"           -> Col_n_non_zeros(native)
      [] name = "Col::n_lp_non_zeros"        -> Col_n_lp_non_zeros(native)
      [] name = "Col::strong_branching_node" -> Col_strong_branching_node(native)
      [] name = "Col::n_strong_branches"     -> Col_n_strong_branches(native)
      [] name = "Col::age"                   -> Col_age(native)

IdleAcc ==
    /\ accName = "none"
    /\ accNative = 0
    /\ accOut = None

\* a caller invokes one accessor; the engine answers the native getter
\* with `native`
CallAccessor(name, native) ==
    /\ accName' = name
    /\ accNative' = native
    /\ accOut' = Accessor(name, native)
    /\ UNCHANGED <<maskVars, heurVars, viewVars, phaseVars>>

NextAcc == \E name \in AccessorNames, native \in NativeInts : CallAccessor(name, native)

---------------------------------------------------------------------------
(* heuristic.rs: HeurResult and its translation                            *)

HeurResults == {"FoundSol", "NoSolFound", "DidNotRun", "Delayed"}

\* impl From<HeurResult> for SCIP_Result with Delayed sent to DIDNOTRUN
From_HeurResult_delayed_slip(val) ==
    CASE val = "FoundSol"   -> "SCIP_FOUNDSOL"
      [] val = "NoSolFound" -> "SCIP_DIDNOTFIND"
      [] val = "DidNotRun"  -> "SCIP_DIDNOTRUN"
      [] val = "Delayed"    -> "SCIP_DIDNOTRUN"

\* impl From<HeurResult> for SCIP_Result with NoSolFound sent to FOUNDSOL
From_HeurResult_found_slip(val) ==
    CASE val = "FoundSol"   -> "SCIP_FOUNDSOL"
      [] val = "NoSolFound" -> "SCIP_FOUNDSOL"
      [] val = "DidNotRun"  -> "SCIP_DIDNOTRUN"
      [] val = "Delayed"    -> "SCIP_DELAYED"

\* impl From<HeurResult> for SCIP_Result
From_HeurResult_for_SCIP_Result(val) ==
    CASE val = "FoundSol"   -> "SCIP_FOUNDSOL"
      [] val = "NoSolFound" -> "SCIP_DIDNOTFIND"
      [] val = "DidNotRun"  -> "SCIP_DIDNOTRUN"
      [] val = "Delayed"    -> "SCIP_DELAYED"

---------------------------------------------------------------------------
(* heuristic.rs, mod tests: the Heuristic implementations.  Each gives     *)
(* what execute returns, or that it panics, and whether it added a         *)
(* solution to the engine.                                                 *)

UserHeuristics ==
    {"NoSolutionFoundHeur", "ImpostorHeur", "DelayedHeur", "DidNotRunHeur",
     "FoundSolHeur"}

\* Heuristic::execute.  objVal is what sol.obj_val() gives for the solution
\* FoundSolHeur builds (all variables at 1.0) and addSol what add_sol returns
\* for it; FoundSolHeur asserts the first to be 7.0 and the second Ok(()),
\* and a failed assertion is a panic: nothing is returned
execute(user, objVal, addSol) ==
    CASE user = "NoSolutionFoundHeur" -> [res |-> "NoSolFound", addsSol |-> FALSE]
      [] user = "ImpostorHeur"        -> [res |-> "FoundSol",   addsSol |-> FALSE]
      [] user = "DelayedHeur"         -> [res |-> "Delayed",    addsSol |-> FALSE]
      [] user = "DidNotRunHeur"       -> [res |-> "DidNotRun",  addsSol |-> FALSE]
      [] user = "FoundSolHeur"        ->
            IF objVal # 7 THEN [res |-> "Panic", addsSol |-> FALSE]
            ELSE IF addSol # "Ok" THEN [res |-> "Panic", addsSol |-> FALSE]
            ELSE [res |-> "FoundSol", addsSol |-> TRUE]

\* the timing masks given at registration
RegisteredTimings ==
    { HeurTimingConst(n) : n \in TimingNames }
    \cup { bitor(BEFORE_PRESOL, AFTER_PROP_LOOP),     \* tests::test_heur
           bitor(BEFORE_NODE, AFTER_LP_NODE) }        \* tests::impostor_heur
    \cup { From_u32_for_HeurTiming(n) : n \in U32Samples }

---------------------------------------------------------------------------
(* The engine's side of a solve: its timing points and when it calls a     *)
(* heuristic.                                                              *)

\* SCIP_HEURTIMING_<point>, a 32-bit flag
NativeTimingFlag(point) ==
    CASE point = "BEFORE_NODE"         -> <<1, 0>>
      [] point = "DURING_LP_LOOP"      -> <<2, 0>>
      [] point = "AFTER_LP_LOOP"       -> <<4, 0>>
      [] point = "AFTER_LP_NODE"       -> <<8, 0>>
      [] point = "AFTER_PSEUDO_NODE"   -> <<16, 0>>
      [] point = "AFTER_LP_PLUNGE"     -> <<32, 0>>
      [] point = "AFTER_PSEUDO_PLUNGE" -> <<64, 0>>
      [] point = "DURING_PRICING_LOOP" -> <<128, 0>>
      [] point = "BEFORE_PRESOL"       -> <<256, 0>>
      [] point = "DURING_PRESOL_LOOP"  -> <<512, 0>>
      [] point = "AFTER_PROP_LOOP"     -> <<1024, 0>>

\* the engine calls a heuristic at a point when (timingmask & point) != 0
NativeFires(mask, point) ==
    \E i \in 1..2 : BitAndWord(mask[i], NativeTimingFlag(point)[i]) # 0

\* the points that can follow a point in the solve loop
EngineSuccessors(point) ==
    CASE point = "start"               -> {"BEFORE_PRESOL"}
      [] point = "BEFORE_PRESOL"       -> {"DURING_PRESOL_LOOP"}
      [] point = "DURING_PRESOL_LOOP"  -> {"DURING_PRESOL_LOOP", "BEFORE_NODE", "end"}
      [] point = "BEFORE_NODE"         -> {"AFTER_PROP_LOOP"}
      [] point = "AFTER_PROP_LOOP"     -> {"DURING_LP_LOOP", "AFTER_PSEUDO_NODE"}
      [] point = "DURING_LP_LOOP"      -> {"DURING_PRICING_LOOP", "DURING_LP_LOOP",
                                           "AFTER_LP_LOOP"}
      [] point = "DURING_PRICING_LOOP" -> {"DURING_LP_LOOP", "AFTER_LP_LOOP"}
      [] point = "AFTER_LP_LOOP"       -> {"AFTER_LP_NODE"}
      [] point = "AFTER_LP_NODE"       -> {"AFTER_LP_PLUNGE", "BEFORE_NODE", "end"}
      [] point = "AFTER_PSEUDO_NODE"   -> {"AFTER_PSEUDO_PLUNGE", "BEFORE_NODE", "end"}
      [] point = "AFTER_LP_PLUNGE"     -> {"BEFORE_NODE", "end"}
      [] point = "AFTER_PSEUDO_PLUNGE" -> {"BEFORE_NODE", "end"}
      [] point = "end"                 -> {}

IdleHeur ==
    /\ hUser = "none"
    /\ hTiming = BEFORE_NODE
    /\ hNativeMask = <<0, 0>>
    /\ sPhase = "ProblemBuilding"
    /\ pc = "engine"
    /\ ePoint = "start"
    /\ eNode = 0
    /\ nSols = 0
    /\ incumbent = "none"
    /\ firedAt = {}
    /\ hCalls = 0
    /\ hArgTiming = BEFORE_NODE
    /\ hRet = "none"
    /\ hNativeRes = "none"
    /\ cbOutcome = "none"
    /\ nSolsBefore = 0
    /\ nSolsAfter = 0
    /\ incBefore = "none"

\* model.add(heur(h).name(..).timing(t)): the bridge hands the engine the
\* mask as a 32-bit integer
RegisterHeur(user, t) ==
    /\ sPhase = "ProblemBuilding"
    /\ hUser = "none"
    /\ hUser' = user
    /\ hTiming' = t
    /\ hNativeMask' = From_HeurTiming_for_u32(t)
    /\ UNCHANGED <<sPhase, pc, ePoint, eNode, nSols, incumbent, firedAt, hCalls,
                   hArgTiming, hRet, hNativeRes, cbOutcome, nSolsBefore, nSolsAfter,
                   incBefore>>
    /\ UNCHANGED <<maskVars, accVars, viewVars, phaseVars>>

\* model.solve(): the engine's loop starts
SolveBegin ==
    /\ sPhase = "ProblemBuilding"
    /\ hUser # "none"
    /\ sPhase' = "Solving"
    /\ UNCHANGED <<hUser, hTiming, hNativeMask, pc, ePoint, eNode, nSols, incumbent,
                   firedAt, hCalls, hArgTiming, hRet, hNativeRes, cbOutcome,
                   nSolsBefore, nSolsAfter, incBefore>>
    /\ UNCHANGED <<maskVars, accVars, viewVars, phaseVars>>

\* the loop reaches its next timing point and, when the heuristic's mask
\* holds that point's flag, calls into the bridge
EngineAdvance(point) ==
    /\ sPhase = "Solving"
    /\ pc = "engine"
    /\ point \in EngineSuccessors(ePoint) \ {"end"}
    /\ point = "BEFORE_NODE" => eNode < MaxNodes
    /\ NativeFires(hNativeMask, point) => hCalls < MaxCalls
    /\ ePoint' = point
    /\ eNode' = IF point = "BEFORE_NODE" THEN eNode + 1 ELSE eNode
    /\ pc' = IF NativeFires(hNativeMask, point) THEN "callback" ELSE "engine"
    /\ UNCHANGED <<hUser, hTiming, hNativeMask, sPhase, nSols, incumbent, firedAt,
                   hCalls, hArgTiming, hRet, hNativeRes, cbOutcome, nSolsBefore,
                   nSolsAfter, incBefore>>
    /\ UNCHANGED <<maskVars, accVars, viewVars, phaseVars>>

\* the bridge's native callback: it runs the user's execute with a
\* Solving-phase session and the point's timing.  objVal and addSol are the
\* engine's answers to execute (the objective value of the solution it
\* builds, the outcome of add_sol); the engine does not store a solution
\* it already holds, so add_sol is not Ok for the solution the previous
\* invocation stored.  A panic inside execute, and a FoundSol that came
\* with no new solution (tests::impostor_heur is #[should_panic]), end the
\* solve in a panic; anything else is translated and handed to the engine
HeurExec(objVal, addSol) ==
    /\ sPhase = "Solving"
    /\ pc = "callback"
    /\ addSol = "Ok" =>
          ~(cbOutcome = "returned" /\ hRet = "FoundSol" /\ nSolsAfter > nSolsBefore)
    /\ LET r == execute(hUser, objVal, addSol)
           added == IF r.addsSol THEN 1 ELSE 0
       IN /\ nSolsBefore' = nSols
          /\ incBefore' = incumbent
          /\ nSols' = nSols + added
          /\ nSolsAfter' = nSols'
          /\ IF r.addsSol
             THEN incumbent' \in (IF incumbent = "none" THEN {"heur"}
                                  ELSE {incumbent, "heur"})
             ELSE incumbent' = incumbent
          /\ hRet' = r.res
          /\ hArgTiming' = From_u32_for_HeurTiming(NativeTimingFlag(ePoint))
          /\ firedAt' = firedAt \cup {ePoint}
          /\ hCalls' = hCalls + 1
          /\ IF r.res = "Panic" \/ (r.res = "FoundSol" /\ nSolsAfter' <= nSolsBefore')
             THEN /\ sPhase' = "Panicked"
                  /\ cbOutcome' = "panicked"
                  /\ UNCHANGED <<hNativeRes, pc>>
             ELSE /\ hNativeRes' = From_HeurResult_for_SCIP_Result(r.res)
                  /\ cbOutcome' = "returned"
                  /\ pc' = "engine"
                  /\ UNCHANGED sPhase
    /\ UNCHANGED <<hUser, hTiming, hNativeMask, ePoint, eNode>>
    /\ UNCHANGED <<maskVars, accVars, viewVars, phaseVars>>

\* the engine finds a solution by its own means
EngineFindsSol ==
    /\ sPhase = "Solving"
    /\ pc = "engine"
    /\ ePoint # "start"
    /\ nSols - hCalls < MaxEngineSols
    /\ incumbent # "engine"
    /\ nSols' = nSols + 1
    /\ incumbent' = "engine"
    /\ UNCHANGED <<hUser, hTiming, hNativeMask, sPhase, pc, ePoint, eNode, firedAt,
                   hCalls, hArgTiming, hRet, hNativeRes, cbOutcome, nSolsBefore,
                   nSolsAfter, incBefore>>
    /\ UNCHANGED <<maskVars, accVars, viewVars, phaseVars>>

\* the loop ends: solve() returns the Solved session
SolveEnd ==
    /\ sPhase = "Solving"
    /\ pc = "engine"
    /\ "end" \in EngineSuccessors(ePoint)
    /\ sPhase' = "Solved"
    /\ ePoint' = "end"
    /\ UNCHANGED <<hUser, hTiming, hNativeMask, pc, eNode, nSols, incumbent, firedAt,
                   hCalls, hArgTiming, hRet, hNativeRes, cbOutcome, nSolsBefore,
                   nSolsAfter, incBefore>>
    /\ UNCHANGED <<maskVars, accVars, viewVars, phaseVars>>

NextHeur ==
    \/ \E user \in UserHeuristics, t \in RegisteredTimings : RegisterHeur(user, t)
    \/ SolveBegin
    \/ \E point \in TimingNames : EngineAdvance(point)
    \/ \E objVal \in {6, 7}, addSol \in {"Ok", "Err"} : HeurExec(objVal, addSol)
    \/ EngineFindsSol
    \/ SolveEnd

---------------------------------------------------------------------------
(* Doubles.  A double d is modelled by the integer 2d, so that halves are  *)
(* exact; f64::INFINITY is a number above every other value used.         *)

\* the double n.0
F(n) == 2 * n
\* the double n/d (d is 1 or 2)
Frac(n, d) == (2 * n) \div d

\* f64::INFINITY
F64_INFINITY == 4000000

\* f64::is_infinite
IsInfinite(x) == x = F64_INFINITY \/ x = 0 - F64_INFINITY

---------------------------------------------------------------------------
(* The engine's side of variable creation (SCIPcreateVarBasic, SCIPaddVar) *)

VarTypes == {"Continuous", "Integer", "Binary", "ImplInt"}

\* the variable object the engine creates for add_var(lb, ub, obj, _, vtype):
\* it holds the bounds, the coefficient and the type as given; index is the
\* engine's running variable counter
NewOriginalVar(a, index) ==
    [ index  |-> index,
      lb     |-> a.lb,
      ub     |-> a.ub,
      obj    |-> a.obj,
      vtype  |-> a.vtype,
      status |-> "Original",
      orig   |-> 0,       \* transformed variables: their original's locator
      col    |-> 0,       \* column variables: their column's locator
      sol    |-> a.lb ]   \* value in the engine's current solution

---------------------------------------------------------------------------
(* Locators and views                                                      *)

VarLocs == { <<"var", i>> : i \in 1 .. (2 * MaxVars) }
ColLocs == { <<"col", i>> : i \in 1 .. MaxVars }
RowLocs == { <<"row", i>> : i \in 1 .. MaxCons }
Locs == VarLocs \cup ColLocs \cup RowLocs
NoLoc == <<"none", 0>>

\* the locators in a fixed order
LocSeq ==
    [i \in 1 .. (2 * MaxVars) |-> <<"var", i>>]
        \o [i \in 1 .. MaxVars |-> <<"col", i>>]
        \o [i \in 1 .. MaxCons |-> <<"row", i>>]

\* the views on the first k locators
RECURSIVE ViewsUpTo(_, _)
ViewsUpTo(vs, k) == IF k = 0 THEN 0 ELSE vs[LocSeq[k]] + ViewsUpTo(vs, k - 1)

\* the number of live views
ViewCount == ViewsUpTo(views, Len(LocSeq))

\* the owners of the engine context: the session, the session a running
\* callback was given, and every live view
Owners == (IF modelAlive THEN 1 ELSE 0) + (IF ctl = "callback" THEN 1 ELSE 0) + ViewCount

\* the native object behind a locator
NVar(loc) == nvars[loc[2]]
NCol(loc) == ncols[loc[2]]

\* Rc::clone that copies the pointer without counting it
Rc_clone_uncounted(count) == count

\* Rc::clone(&self.scip): one more strong reference
Rc_clone(count) == count + 1

\* one more / one less live view on a locator
AddView(vs, loc) == IF loc \in DOMAIN vs THEN [vs EXCEPT ![loc] = @ + 1] ELSE vs
RemoveView(vs, loc) == [vs EXCEPT ![loc] = @ - 1]

\* a caller can run: between engine calls, or inside a callback
CallerRuns == ctl \in {"caller", "callback"}

\* a live Variable / Col view exists on the locator
LiveVar(loc) == loc \in VarLocs /\ loc[2] <= Len(nvars) /\ views[loc] > 0
LiveCol(loc) == loc \in ColLocs /\ loc[2] <= Len(ncols) /\ views[loc] > 0

NoOp ==
    /\ opName' = "none"
    /\ opView' = NoLoc
    /\ opOther' = NoLoc
    /\ opOut' = None
    /\ opInLP' = FALSE
    /\ opReadCol' = FALSE

IdleViews ==
    /\ mPhase = "ProblemBuilding"
    /\ ctl = "caller"
    /\ modelAlive = TRUE
    /\ strong = 1
    /\ teardowns = 0
    /\ nvars = <<>>
    /\ given = <<>>
    /\ ncols = <<>>
    /\ conss = <<>>
    /\ hasHdlr = FALSE
    /\ hdlrRuns = 0
    /\ views = [l \in Locs |-> 0]
    /\ opName = "none"
    /\ opView = NoLoc
    /\ opOther = NoLoc
    /\ opOut = None
    /\ opInLP = FALSE
    /\ opReadCol = FALSE

---------------------------------------------------------------------------
(* variable.rs: the accessors of a Variable, as functions of the native    *)
(* variable object its locator points to                                   *)

\* Variable::lb reading the upper bound
Variable_lb_reads_ub(v) == v.ub

\* Variable::obj: SCIPvarGetObj
Variable_obj(v) == v.obj
\* Variable::lb: SCIPvarGetLbLocal
Variable_lb(v) == v.lb
\* Variable::ub: SCIPvarGetUbLocal
Variable_ub(v) == v.ub
\* Variable::lb_local: SCIPvarGetLbLocal
Variable_lb_local(v) == v.lb
\* Variable::ub_local: SCIPvarGetUbLocal
Variable_ub_local(v) == v.ub

BoundAccessors ==
    {"Variable::lb", "Variable::ub", "Variable::lb_local", "Variable::ub_local",
     "Variable::obj"}

VariableRead(name, v) ==
    CASE name = "Variable::lb"       -> Variable_lb(v)
      [] name = "Variable::ub"       -> Variable_ub(v)
      [] name = "Variable::lb_local" -> Variable_lb_local(v)
      [] name = "Variable::ub_local" -> Variable_ub_local(v)
      [] name = "Variable::obj"      -> Variable_obj(v)

---------------------------------------------------------------------------
(* Problem building                                                        *)

\* the arguments of add_var in the tests of variable.rs and col.rs: those of
\* var_data, of var_memory_safety, and of var_sol_val and test_col
TestVarArgs ==
    { [lb |-> F(0), ub |-> F(1), obj |-> F(2), vtype |-> "ImplInt"],
      [lb |-> F(0), ub |-> F64_INFINITY, obj |-> F(3), vtype |-> "Integer"],
      [lb |-> F(0), ub |-> F(1), obj |-> F(1), vtype |-> "Binary"] }

\* further arguments: an infinite lower bound, fractional bounds, a binary
\* variable with a bound of 2
MoreVarArgs ==
    { [lb |-> 0 - F64_INFINITY, ub |-> F(1), obj |-> F(1), vtype |-> "Continuous"],
      [lb |-> Frac(1, 2), ub |-> Frac(3, 2), obj |-> F(2), vtype |-> "Continuous"],
      [lb |-> Frac(1, 2), ub |-> Frac(3, 2), obj |-> F(2), vtype |-> "Integer"],
      [lb |-> F(0), ub |-> F(2), obj |-> F(1), vtype |-> "Binary"] }

\* model.add_var(lb, ub, obj, name, vtype): the engine creates the variable
\* and the caller gets a Variable view that shares the context
AddVar(a) ==
    /\ mPhase = "ProblemBuilding"
    /\ modelAlive
    /\ ctl = "caller"
    /\ Len(given) < MaxVars
    /\ ViewCount < MaxViews
    /\ nvars' = Append(nvars, NewOriginalVar(a, Len(nvars)))
    /\ given' = Append(given, a)
    /\ views' = AddView(views, <<"var", Len(nvars) + 1>>)
    /\ strong' = Rc_clone(strong)
    /\ UNCHANGED mPhase
    /\ NoOp
    /\ UNCHANGED <<ctl, modelAlive, teardowns, ncols, conss, hasHdlr, hdlrRuns>>
    /\ UNCHANGED <<maskVars, accVars, heurVars, phaseVars>>

\* one of lb(), ub(), lb_local(), ub_local(), obj() on a live Variable view
ReadVariable(name, loc) ==
    /\ CallerRuns
    /\ LiveVar(loc)
    /\ opName' = name
    /\ opView' = loc
    /\ opOther' = NoLoc
    /\ opOut' = Value(VariableRead(name, NVar(loc)))
    /\ opInLP' = FALSE
    /\ opReadCol' = FALSE
    /\ UNCHANGED <<mPhase, ctl, modelAlive, strong, teardowns, nvars, given, ncols,
                   conss, hasHdlr, hdlrRuns, views>>
    /\ UNCHANGED <<maskVars, accVars, heurVars, phaseVars>>

NextVarData ==
    \/ \E a \in TestVarArgs \cup MoreVarArgs : AddVar(a)
    \/ \E name \in BoundAccessors, loc \in VarLocs : ReadVariable(name, loc)

---------------------------------------------------------------------------
(* The engine's side of a solve of the problems built here: every          *)
(* constraint is lhs <= x_i <= rhs on one variable, the objective is       *)
(* minimised                                                               *)

Max(a, b) == IF a >= b THEN a ELSE b
Min(a, b) == IF a <= b THEN a ELSE b

RECURSIVE TightLb(_, _)
TightLb(i, k) ==
    IF k = 0 THEN nvars[i].lb
    ELSE IF conss[k].var = i THEN Max(conss[k].lhs, TightLb(i, k - 1))
    ELSE TightLb(i, k - 1)

RECURSIVE TightUb(_, _)
TightUb(i, k) ==
    IF k = 0 THEN nvars[i].ub
    ELSE IF conss[k].var = i THEN Min(conss[k].rhs, TightUb(i, k - 1))
    ELSE TightUb(i, k - 1)

\* the value of original variable i in an optimal solution
Optimum(i) ==
    IF nvars[i].obj >= 0 THEN TightLb(i, Len(conss)) ELSE TightUb(i, Len(conss))

\* its value in the pseudo solution (the better of its own bounds)
PseudoSol(i) == IF nvars[i].obj >= 0 THEN nvars[i].lb ELSE nvars[i].ub

Solvable ==
    \A i \in 1 .. Len(given) :
        /\ TightLb(i, Len(conss)) <= TightUb(i, Len(conss))
        /\ ~IsInfinite(Optimum(i))

ConssOn(i) == { k \in 1 .. Len(conss) : conss[k].var = i }
ModifiableOn(i) == \E k \in ConssOn(i) : conss[k].modifiable

\* the transformed counterpart of original variable i; presolving fixes it
\* unless the LP is solved, and then it is a column
TransformedVar(i, lp) ==
    LET o == nvars[i]
        n == Len(given)
    IN [ index  |-> n + i - 1,
         lb     |-> IF lp THEN o.lb ELSE Optimum(i),
         ub     |-> IF lp THEN o.ub ELSE Optimum(i),
         obj    |-> o.obj,
         vtype  |-> o.vtype,
         status |-> IF lp THEN "Column" ELSE "Fixed",
         orig   |-> i,
         col    |-> IF lp THEN i ELSE 0,
         sol    |-> Optimum(i) ]

\* the column of original variable i after the first LP has been solved: a
\* column held by an equation is basic, another sits at one of its bounds
LpColumn(i) ==
    [ index    |-> i - 1,
      var      |-> Len(given) + i,
      primsol  |-> Optimum(i),
      basis    |-> IF \E k \in ConssOn(i) : conss[k].lhs = conss[k].rhs THEN "Basic"
                   ELSE IF Optimum(i) = nvars[i].lb THEN "Lower" ELSE "Upper",
      integral |-> IF nvars[i].vtype = "Continuous" THEN 0 ELSE 1,
      lppos    |-> i - 1,
      rows     |-> ConssOn(i) ]

\* SCIPvarIsInLP: a column variable whose column is in the current LP
SCIPvarIsInLP(v) ==
    IF v.status = "Column" /\ ncols[v.col].lppos >= 0 THEN 1 ELSE 0

\* SCIPvarGetCol: the column locator stored in the variable object (only
\* meaningful for a column variable)
SCIPvarGetCol(v) == v.col

\* SCIPgetVarSol: an original variable reports its transformed counterpart
SCIPgetVarSol(v) ==
    IF v.status = "Original" THEN nvars[Len(given) + v.index + 1].sol ELSE v.sol

---------------------------------------------------------------------------
(* variable.rs / col.rs: the operations that derive views                  *)

\* Variable::is_in_lp
Variable_is_in_lp(v) == SCIPvarIsInLP(v) # 0

\* Variable::col without the is_in_lp test
Variable_col_unchecked(v) ==
    [out |-> Some(<<"col", SCIPvarGetCol(v)>>), readCol |-> TRUE]

\* Variable::col: the column view, and whether SCIPvarGetCol was called
Variable_col(v) ==
    IF Variable_is_in_lp(v)
    THEN [out |-> Some(<<"col", SCIPvarGetCol(v)>>), readCol |-> TRUE]
    ELSE [out |-> None, readCol |-> FALSE]

\* Variable::sol_val reading the lower bound
Variable_sol_val_reads_lb(v) == v.lb

\* Variable::sol_val
Variable_sol_val(v) == SCIPgetVarSol(v)

\* Col::var: the locator SCIPcolGetVar returns
Col_var(c) == <<"var", c.var>>

\* Col::primal_sol, Col::basis_status, Col::is_integral
Col_primal_sol(c) == c.primsol
Col_basis_status(c) == c.basis
Col_is_integral(c) == c.integral # 0

ColAccessors == {"Col::primal_sol", "Col::basis_status", "Col::is_integral"}

ColRead(name, c) ==
    CASE name = "Col::primal_sol"   -> Col_primal_sol(c)
      [] name = "Col::basis_status" -> Col_basis_status(c)
      [] name = "Col::is_integral"  -> Col_is_integral(c)

\* impl PartialEq for Variable: self.index() == other.index() && self.raw == other.raw
Variable_eq(a, b) ==
    LET ia == Variable_index(NVar(a).index)
        ib == Variable_index(NVar(b).index)
    IN IF ia = Panic \/ ib = Panic THEN Panic
       ELSE Value(ia.val = ib.val /\ a = b)

\* the bounds and the objective coefficient a column reports (those of its
\* variable) and its integrality
ColData(c) ==
    LET v == NVar(Col_var(c))
    IN <<v.lb, v.ub, v.obj, Col_is_integral(c)>>

\* PartialEq for Col comparing the data instead of the locator
Col_eq_by_data(a, b) == Value(ColData(NCol(a)) = ColData(NCol(b)))

\* impl PartialEq for Col: self.index() == other.index() && self.raw == other.raw
Col_eq(a, b) ==
    LET ia == Col_index(NCol(a).index)
        ib == Col_index(NCol(b).index)
    IN IF ia = Panic \/ ib = Panic THEN Panic
       ELSE Value(ia.val = ib.val /\ a = b)

---------------------------------------------------------------------------
(* The session and its views: actions                                      *)

\* dropping one owner: the Rc's strong count falls, and at zero the context
\* is torn down
Release ==
    /\ strong' = strong - 1
    /\ teardowns' = IF strong' = 0 THEN teardowns + 1 ELSE teardowns

OpIs(name, loc, other, out) ==
    /\ opName' = name
    /\ opView' = loc
    /\ opOther' = other
    /\ opOut' = out
    /\ opInLP' = FALSE
    /\ opReadCol' = FALSE

\* model.add_cons(vec![&x], &[1.0], 1.0, 1.0, name) for the caller's view x;
\* as in the tests a variable gets one constraint, and constraints are added
\* in the order of their variables (what the engine does with them does not
\* depend on their order)
AddCons(i) ==
    /\ mPhase = "ProblemBuilding" /\ modelAlive /\ ctl = "caller"
    /\ Len(conss) < MaxCons
    /\ Len(conss) > 0 => conss[Len(conss)].var < i
    /\ i \in 1 .. Len(given)
    /\ views[<<"var", i>>] > 0
    /\ conss' = Append(conss, [var |-> i, lhs |-> F(1), rhs |-> F(1),
                               modifiable |-> FALSE])
    /\ NoOp
    /\ UNCHANGED <<mPhase, ctl, modelAlive, strong, teardowns, nvars, given, ncols,
                   hasHdlr, hdlrRuns, views>>
    /\ UNCHANGED <<maskVars, accVars, heurVars, phaseVars>>

\* model.set_cons_modifiable(&cons, true)
SetConsModifiable(k) ==
    /\ mPhase = "ProblemBuilding" /\ modelAlive /\ ctl = "caller"
    /\ k \in 1 .. Len(conss)
    /\ ~conss[k].modifiable
    /\ conss' = [conss EXCEPT ![k].modifiable = TRUE]
    /\ NoOp
    /\ UNCHANGED <<mPhase, ctl, modelAlive, strong, teardowns, nvars, given, ncols,
                   hasHdlr, hdlrRuns, views>>
    /\ UNCHANGED <<maskVars, accVars, heurVars, phaseVars>>

\* model.add(eventhdlr(e).name(..)) for a handler of FIRST_LP_SOLVED
IncludeEventhdlr ==
    /\ mPhase = "ProblemBuilding" /\ modelAlive /\ ctl = "caller"
    /\ ~hasHdlr
    /\ hasHdlr' = TRUE
    /\ NoOp
    /\ UNCHANGED <<mPhase, ctl, modelAlive, strong, teardowns, nvars, given, ncols,
                   conss, hdlrRuns, views>>
    /\ UNCHANGED <<maskVars, accVars, heurVars, phaseVars>>

\* model.solve() begins: the engine transforms the problem; presolving
\* solves it unless a modifiable constraint keeps it from doing so, and then
\* the first LP is solved
SolveCall ==
    /\ mPhase = "ProblemBuilding" /\ modelAlive /\ ctl = "caller"
    /\ Len(given) >= 1
    /\ Solvable
    /\ LET lp == \E k \in 1 .. Len(conss) : conss[k].modifiable
       IN /\ nvars' = nvars \o [i \in 1 .. Len(given) |-> TransformedVar(i, lp)]
          /\ ncols' = IF lp THEN [i \in 1 .. Len(given) |-> LpColumn(i)] ELSE <<>>
    /\ mPhase' = "Solving"
    /\ ctl' = "engine"
    /\ NoOp
    /\ UNCHANGED <<modelAlive, strong, teardowns, given, conss, hasHdlr, hdlrRuns,
                   views>>
    /\ UNCHANGED <<maskVars, accVars, heurVars, phaseVars>>

\* the engine raises FIRST_LP_SOLVED: the bridge builds a Solving-phase
\* session on the same context (one more owner) and runs the handler
EventExecBegin ==
    /\ mPhase = "Solving" /\ ctl = "engine"
    /\ hasHdlr /\ hdlrRuns = 0
    /\ Len(ncols) > 0
    /\ ctl' = "callback"
    /\ hdlrRuns' = 1
    /\ strong' = Rc_clone(strong)
    /\ NoOp
    /\ UNCHANGED <<mPhase, modelAlive, teardowns, nvars, given, ncols, conss,
                   hasHdlr, views>>
    /\ UNCHANGED <<maskVars, accVars, heurVars, phaseVars>>

\* the handler returns: its session is dropped and the engine's loop resumes
EventExecReturn ==
    /\ mPhase = "Solving" /\ ctl = "callback"
    /\ ctl' = "engine"
    /\ Release
    /\ NoOp
    /\ UNCHANGED <<mPhase, modelAlive, nvars, given, ncols, conss, hasHdlr,
                   hdlrRuns, views>>
    /\ UNCHANGED <<maskVars, accVars, heurVars, phaseVars>>

\* solve() returns the Solved session.  The engine may have emptied its LP
\* (lpKept = FALSE); a variable under a modifiable constraint may report
\* its pseudo solution value (pseudo = TRUE)
SolveReturn(lpKept, pseudo) ==
    /\ mPhase = "Solving" /\ ctl = "engine"
    /\ hasHdlr /\ Len(ncols) > 0 => hdlrRuns > 0
    /\ lpKept \/ Len(ncols) > 0
    /\ pseudo => \E j \in 1 .. Len(nvars) :
                     nvars[j].status = "Column" /\ ModifiableOn(nvars[j].orig)
    /\ mPhase' = "Solved"
    /\ ctl' = "caller"
    /\ ncols' = [c \in 1 .. Len(ncols) |->
                    [ncols[c] EXCEPT !.lppos = IF lpKept THEN @ ELSE -1]]
    /\ nvars' = [j \in 1 .. Len(nvars) |->
                    IF nvars[j].status = "Column" /\ pseudo /\ ModifiableOn(nvars[j].orig)
                    THEN [nvars[j] EXCEPT !.sol = PseudoSol(nvars[j].orig)]
                    ELSE nvars[j]]
    /\ NoOp
    /\ UNCHANGED <<modelAlive, strong, teardowns, given, conss, hasHdlr, hdlrRuns,
                   views>>
    /\ UNCHANGED <<maskVars, accVars, heurVars, phaseVars>>

\* model.vars()[i - 1] inside the handler: a view of the i-th variable of
\* the transformed problem
ModelVars(i) ==
    /\ CallerRuns /\ ctl = "callback"
    /\ i \in 1 .. Len(given)
    /\ ViewCount < MaxViews
    /\ views' = AddView(views, <<"var", Len(given) + i>>)
    /\ strong' = Rc_clone(strong)
    /\ NoOp
    /\ UNCHANGED <<mPhase, ctl, modelAlive, teardowns, nvars, given, ncols, conss,
                   hasHdlr, hdlrRuns>>
    /\ UNCHANGED <<maskVars, accVars, heurVars, phaseVars>>

\* var.col() on a live Variable view; a Col that is returned shares the context
CallVariableCol(loc) ==
    /\ CallerRuns
    /\ LiveVar(loc)
    /\ ViewCount < MaxViews
    /\ LET r == Variable_col(NVar(loc))
       IN /\ opName' = "Variable::col"
          /\ opView' = loc
          /\ opOther' = NoLoc
          /\ opOut' = r.out
          /\ opInLP' = Variable_is_in_lp(NVar(loc))
          /\ opReadCol' = r.readCol
          /\ IF r.out = None
             THEN UNCHANGED <<views, strong>>
             ELSE /\ views' = AddView(views, r.out.val)
                  /\ strong' = Rc_clone(strong)
    /\ UNCHANGED <<mPhase, ctl, modelAlive, teardowns, nvars, given, ncols, conss,
                   hasHdlr, hdlrRuns>>
    /\ UNCHANGED <<maskVars, accVars, heurVars, phaseVars>>

\* col.var() on a live Col view
CallColVar(loc) ==
    /\ CallerRuns
    /\ LiveCol(loc)
    /\ ViewCount < MaxViews
    /\ views' = AddView(views, Col_var(NCol(loc)))
    /\ strong' = Rc_clone(strong)
    /\ OpIs("Col::var", loc, NoLoc, Value(Col_var(NCol(loc))))
    /\ UNCHANGED <<mPhase, ctl, modelAlive, teardowns, nvars, given, ncols, conss,
                   hasHdlr, hdlrRuns>>
    /\ UNCHANGED <<maskVars, accVars, heurVars, phaseVars>>

\* col.rows() on a live Col view whose column has one row: n_non_zeros()
\* rows, one Row view each
CallColRows(loc) ==
    /\ CallerRuns
    /\ LiveCol(loc)
    /\ Cardinality(NCol(loc).rows) = 1
    /\ Col_n_non_zeros(Cardinality(NCol(loc).rows)) # Panic
    /\ ViewCount < MaxViews
    /\ LET k == CHOOSE k \in NCol(loc).rows : TRUE
       IN /\ views' = AddView(views, <<"row", k>>)
          /\ strong' = Rc_clone(strong)
          /\ OpIs("Col::rows", loc, NoLoc, Value(<<"row", k>>))
    /\ UNCHANGED <<mPhase, ctl, modelAlive, teardowns, nvars, given, ncols, conss,
                   hasHdlr, hdlrRuns>>
    /\ UNCHANGED <<maskVars, accVars, heurVars, phaseVars>>

\* view.clone() (#[derive(Clone)]): the locator is copied, the Rc is cloned
CloneView(loc) ==
    /\ CallerRuns
    /\ loc \in Locs /\ views[loc] > 0
    /\ ViewCount < MaxViews
    /\ views' = AddView(views, loc)
    /\ strong' = Rc_clone(strong)
    /\ OpIs("clone", loc, loc, Value(loc))
    /\ UNCHANGED <<mPhase, ctl, modelAlive, teardowns, nvars, given, ncols, conss,
                   hasHdlr, hdlrRuns>>
    /\ UNCHANGED <<maskVars, accVars, heurVars, phaseVars>>

\* drop(view)
DropView(loc) ==
    /\ CallerRuns
    /\ loc \in Locs /\ views[loc] > 0
    /\ views' = RemoveView(views, loc)
    /\ Release
    /\ OpIs("drop", loc, NoLoc, None)
    /\ UNCHANGED <<mPhase, ctl, modelAlive, nvars, given, ncols, conss, hasHdlr,
                   hdlrRuns>>
    /\ UNCHANGED <<maskVars, accVars, heurVars, phaseVars>>

\* drop(model)
DropModel ==
    /\ CallerRuns /\ ctl = "caller"
    /\ modelAlive
    /\ modelAlive' = FALSE
    /\ Release
    /\ OpIs("drop(model)", NoLoc, NoLoc, None)
    /\ UNCHANGED <<mPhase, ctl, nvars, given, ncols, conss, hasHdlr, hdlrRuns,
                   views>>
    /\ UNCHANGED <<maskVars, accVars, heurVars, phaseVars>>

\* var.sol_val() on a live Variable view, once the problem is transformed
ReadSolVal(loc) ==
    /\ CallerRuns
    /\ mPhase \in {"Solving", "Solved"}
    /\ LiveVar(loc)
    /\ OpIs("Variable::sol_val", loc, NoLoc, Value(Variable_sol_val(NVar(loc))))
    /\ UNCHANGED <<mPhase, ctl, modelAlive, strong, teardowns, nvars, given, ncols,
                   conss, hasHdlr, hdlrRuns, views>>
    /\ UNCHANGED <<maskVars, accVars, heurVars, phaseVars>>

\* col.primal_sol(), col.basis_status() or col.is_integral() on a live Col view
ReadCol(name, loc) ==
    /\ CallerRuns
    /\ LiveCol(loc)
    /\ OpIs(name, loc, NoLoc, Value(ColRead(name, NCol(loc))))
    /\ UNCHANGED <<mPhase, ctl, modelAlive, strong, teardowns, nvars, given, ncols,
                   conss, hasHdlr, hdlrRuns, views>>
    /\ UNCHANGED <<maskVars, accVars, heurVars, phaseVars>>

\* a == b for two live Variable views
CompareVars(a, b) ==
    /\ CallerRuns
    /\ LiveVar(a) /\ LiveVar(b)
    /\ a = b => views[a] > 1
    /\ OpIs("Variable::eq", a, b, Variable_eq(a, b))
    /\ UNCHANGED <<mPhase, ctl, modelAlive, strong, teardowns, nvars, given, ncols,
                   conss, hasHdlr, hdlrRuns, views>>
    /\ UNCHANGED <<maskVars, accVars, heurVars, phaseVars>>

\* a == b for two live Col views
CompareCols(a, b) ==
    /\ CallerRuns
    /\ LiveCol(a) /\ LiveCol(b)
    /\ a = b => views[a] > 1
    /\ OpIs("Col::eq", a, b, Col_eq(a, b))
    /\ UNCHANGED <<mPhase, ctl, modelAlive, strong, teardowns, nvars, given, ncols,
                   conss, hasHdlr, hdlrRuns, views>>
    /\ UNCHANGED <<maskVars, accVars, heurVars, phaseVars>>

\* the variable of tests::var_sol_val and tests::test_col
SessionVarArgs == {a \in TestVarArgs : a.vtype = "Binary"}

\* add_var on a session that is going to be solved
AddSessionVar(a) == Len(given) < MaxSessionVars /\ AddVar(a)

Next ==
    \/ \E a \in SessionVarArgs : AddSessionVar(a)
    \/ \E i \in 1 .. MaxVars : AddCons(i)
    \/ \E k \in 1 .. MaxCons : SetConsModifiable(k)
    \/ IncludeEventhdlr
    \/ SolveCall
    \/ EventExecBegin
    \/ EventExecReturn
    \/ \E lpKept, pseudo \in BOOLEAN : SolveReturn(lpKept, pseudo)
    \/ \E i \in 1 .. MaxVars : ModelVars(i)
    \/ \E loc \in VarLocs : CallVariableCol(loc)
    \/ \E loc \in ColLocs : CallColVar(loc)
    \/ \E loc \in ColLocs : CallColRows(loc)
    \/ \E loc \in Locs : CloneView(loc)
    \/ \E loc \in Locs : DropView(loc)
    \/ DropModel
    \/ \E loc \in VarLocs : ReadSolVal(loc)
    \/ \E name \in ColAccessors, loc \in ColLocs : ReadCol(name, loc)
    \/ \E a, b \in VarLocs : CompareVars(a, b)
    \/ \E a, b \in ColLocs : CompareCols(a, b)

---------------------------------------------------------------------------
(* Phase-tagged sessions: Model<ProblemBuilding>, Model<Solving> and       *)
(* Model<Solved> values over one engine instance                           *)

PhaseTags == {"ProblemBuilding", "Solving", "Solved"}

\* the transitions of the engine's stage
PhaseEdges ==
    { <<"ProblemBuilding", "Solving">>, <<"Solving", "Solved">>,
      <<"Solved", "ProblemBuilding">> }

SessionOps == {"add_var", "add_cons", "create_sol", "vars"}

\* the plugins the engine calls back
PluginKinds == {"heur", "eventhdlr"}

\* solve declared for the Solving phase too
DeclaredFor_solve_while_solving(op) ==
    IF op = "vars" THEN PhaseTags ELSE {"ProblemBuilding", "Solving"}

\* the phase tags an operation is declared for: add_var, add_cons and
\* create_sol come with the trait ProblemOrSolving, vars with
\* ModelWithProblem; solve is a method of the ProblemBuilding session
DeclaredFor(op) ==
    CASE op = "vars"  -> PhaseTags
      [] op = "solve" -> {"ProblemBuilding"}
      [] OTHER        -> {"ProblemBuilding", "Solving"}

Session(tag, holder) == [tag |-> tag, holder |-> holder]

NoSessionOp == [op |-> "none", tag |-> "none"]

\* a method taking `&self` where the transition takes `self`
Consume_keeps(S, s) == S

\* a method taking `self`: the session value is moved out of its holder
Consume(S, s) == S \ {s}

IdlePhase ==
    /\ sess = {Session("ProblemBuilding", "caller")}
    /\ ePhase = "ProblemBuilding"
    /\ pctl = "caller"
    /\ pOp = NoSessionOp
    /\ pSolves = 0
    /\ pCalls = 0
    /\ pActive = <<>>

\* session.op(..) by whoever runs, on a session value it holds
SessionOp(op, s) ==
    /\ pctl \in {"caller", "callback"}
    /\ s \in sess /\ s.holder = pctl
    /\ s.tag \in DeclaredFor(op)
    /\ pOp' = [op |-> op, tag |-> s.tag]
    /\ UNCHANGED <<sess, ePhase, pctl, pSolves, pCalls, pActive>>
    /\ UNCHANGED <<maskVars, accVars, heurVars, viewVars>>

\* model.solve() by whoever runs, on a session value it holds and solve is
\* declared for: the value moves into solve and the engine's loop starts
PhaseSolve(s) ==
    /\ pctl \in {"caller", "callback"}
    /\ s \in sess /\ s.holder = pctl
    /\ s.tag \in DeclaredFor("solve")
    /\ pSolves < MaxSolves
    /\ sess' = Consume(sess, s)
    /\ ePhase' = "Solving"
    /\ pctl' = "engine"
    /\ pOp' = NoSessionOp
    /\ pSolves' = pSolves + 1
    /\ pCalls' = 0
    /\ UNCHANGED pActive
    /\ UNCHANGED <<maskVars, accVars, heurVars, viewVars>>

\* the engine's loop calls a plugin: the bridge makes a Solving-phase
\* session for it and calls its execute
PhaseCallbackBegin(kind) ==
    /\ pctl = "engine" /\ ePhase = "Solving"
    /\ pCalls < MaxCalls
    /\ sess' = sess \cup {Session("Solving", "callback")}
    /\ pctl' = "callback"
    /\ pCalls' = pCalls + 1
    /\ pActive' = Append(pActive, kind)
    /\ pOp' = NoSessionOp
    /\ UNCHANGED <<ePhase, pSolves>>
    /\ UNCHANGED <<maskVars, accVars, heurVars, viewVars>>

\* execute returns to the loop that called it: its session value (taken by
\* value) is dropped
PhaseCallbackReturn ==
    /\ pctl = "callback"
    /\ sess' = { s \in sess : s.holder # "callback" }
    /\ pctl' = "engine"
    /\ pActive' = SubSeq(pActive, 1, Len(pActive) - 1)
    /\ pOp' = NoSessionOp
    /\ UNCHANGED <<ePhase, pSolves, pCalls>>
    /\ UNCHANGED <<maskVars, accVars, heurVars, viewVars>>

\* the loop ends and solve() returns the Solved session to the caller
PhaseSolveReturn ==
    /\ pctl = "engine" /\ ePhase = "Solving"
    /\ pActive = <<>>
    /\ sess' = sess \cup {Session("Solved", "caller")}
    /\ ePhase' = "Solved"
    /\ pctl' = "caller"
    /\ pOp' = NoSessionOp
    /\ UNCHANGED <<pSolves, pCalls, pActive>>
    /\ UNCHANGED <<maskVars, accVars, heurVars, viewVars>>

\* solved.free_transform(): the Solved session is consumed and a
\* ProblemBuilding session returned
PhaseFreeTransform(s) ==
    /\ pctl = "caller"
    /\ s \in sess /\ s.holder = "caller" /\ s.tag = "Solved"
    /\ sess' = Consume(sess, s) \cup {Session("ProblemBuilding", "caller")}
    /\ ePhase' = "ProblemBuilding"
    /\ pOp' = NoSessionOp
    /\ UNCHANGED <<pctl, pSolves, pCalls, pActive>>
    /\ UNCHANGED <<maskVars, accVars, heurVars, viewVars>>

\* drop(model)
PhaseDrop(s) ==
    /\ pctl = "caller"
    /\ s \in sess /\ s.holder = "caller"
    /\ sess' = sess \ {s}
    /\ pOp' = NoSessionOp
    /\ UNCHANGED <<ePhase, pctl, pSolves, pCalls, pActive>>
    /\ UNCHANGED <<maskVars, accVars, heurVars, viewVars>>

SessionValues == { Session(t, h) : t \in PhaseTags, h \in {"caller", "callback"} }

NextPhase ==
    \/ \E op \in SessionOps, s \in SessionValues : SessionOp(op, s)
    \/ \E s \in SessionValues : PhaseSolve(s)
    \/ \E kind \in PluginKinds : PhaseCallbackBegin(kind)
    \/ PhaseCallbackReturn
    \/ PhaseSolveReturn
    \/ \E s \in SessionValues : PhaseFreeTransform(s)
    \/ \E s \in SessionValues : PhaseDrop(s)

---------------------------------------------------------------------------
(* Building masks: `let mut timing = a; timing |= b; let t = timing | c`   *)

InitMask ==
    /\ timing \in MaskInputs
    /\ rhsMask = timing
    /\ prevTiming = timing
    /\ maskOp = "new"
    /\ maskOps = 0

\* timing = timing | rhs
DoBitOr(rhs) ==
    /\ maskOps < MaxMaskOps
    /\ timing' = bitor(timing, rhs)
    /\ rhsMask' = rhs
    /\ prevTiming' = timing
    /\ maskOp' = "bitor"
    /\ maskOps' = maskOps + 1
    /\ UNCHANGED <<accVars, heurVars, viewVars, phaseVars>>

\* timing |= rhs
DoBitOrAssign(rhs) ==
    /\ maskOps < MaxMaskOps
    /\ timing' = bitor_assign(timing, rhs)
    /\ rhsMask' = rhs
    /\ prevTiming' = timing
    /\ maskOp' = "bitor_assign"
    /\ maskOps' = maskOps + 1
    /\ UNCHANGED <<accVars, heurVars, viewVars, phaseVars>>

MaskOperands == MaskInputs \cup {prevTiming}

NextMask ==
    \/ \E rhs \in MaskOperands : DoBitOr(rhs)
    \/ \E rhs \in MaskOperands : DoBitOrAssign(rhs)

---------------------------------------------------------------------------
(* Specifications                                                          *)

InitAccessors == IdleMask /\ IdleAcc /\ IdleHeur /\ IdleViews /\ IdlePhase

SpecAcc == InitAccessors /\ [][NextAcc]_vars

InitHeur == IdleMask /\ IdleAcc /\ IdleHeur /\ IdleViews /\ IdlePhase

SpecHeur == InitHeur /\ [][NextHeur]_vars

InitVarData == IdleMask /\ IdleAcc /\ IdleHeur /\ IdleViews /\ IdlePhase

SpecVarData == InitVarData /\ [][NextVarData]_vars

Init == IdleMask /\ IdleAcc /\ IdleHeur /\ IdleViews /\ IdlePhase

Spec == Init /\ [][Next]_vars

InitPhase == IdleMask /\ IdleAcc /\ IdleHeur /\ IdleViews /\ IdlePhase

SpecPhase == InitPhase /\ [][NextPhase]_vars

InitMasks == InitMask /\ IdleAcc /\ IdleHeur /\ IdleViews /\ IdlePhase

SpecMask == InitMasks /\ [][NextMask]_vars

---------------------------------------------------------------------------
(* C3 as stated: when a heuristic returns FoundSol from execute without    *)
(* having added a solution, the solve does not crash and runs on.          *)
C3_Original ==
    (cbOutcome # "none" /\ hRet = "FoundSol" /\ nSolsAfter <= nSolsBefore)
        => sPhase # "Panicked"

(* C3 as amended: when a heuristic returns FoundSol from execute without   *)
(* having added a solution, the bridge panics and the solve never reaches  *)
(* Solved; that callback hands no result to the engine and leaves the      *)
(* solution store and the incumbent as they were, and the engine is told   *)
(* FOUNDSOL only by a callback during which a solution was added.          *)
C3_ImpostorPanics ==
    /\ (cbOutcome # "none" /\ hRet = "FoundSol" /\ nSolsAfter <= nSolsBefore)
          => /\ sPhase = "Panicked"
             /\ cbOutcome = "panicked"
             /\ hNativeRes = "none"
             /\ nSols = nSolsBefore
             /\ incumbent = incBefore
    /\ (cbOutcome = "returned" /\ hNativeRes = "SCIP_FOUNDSOL")
          => nSolsAfter > nSolsBefore
    /\ sPhase = "Solved" => ~(hUser = "ImpostorHeur" /\ hCalls > 0)

\* ImpostorHeur has run, after the engine had found a solution of its own
C3_Witness ==
    /\ hUser = "ImpostorHeur"
    /\ hTiming = bitor(BEFORE_NODE, AFTER_LP_NODE)
    /\ hCalls = 1
    /\ hRet = "FoundSol"
    /\ incBefore = "engine"
    /\ sPhase = "Panicked"

---------------------------------------------------------------------------
(* C4: execute is invoked at a timing point of the solve loop only if that *)
(* point's flag is set in the mask given at registration; a heuristic      *)
(* registered with BEFORE_NODE alone is invoked at node starts only.       *)
C4_FiresOnlyWithinMask ==
    /\ \A p \in firedAt : Flags(HeurTimingConst(p)) \subseteq Flags(hTiming)
    /\ pc = "callback" => Flags(HeurTimingConst(ePoint)) \subseteq Flags(hTiming)
    /\ (hUser # "none" /\ hTiming = BEFORE_NODE) => firedAt \subseteq {"BEFORE_NODE"}

\* DelayedHeur, registered with BEFORE_NODE, has run at the start of both
\* nodes of a two-node search and the loop has moved past other points
C4_Witness ==
    /\ hUser = "DelayedHeur"
    /\ hTiming = BEFORE_NODE
    /\ eNode = 2
    /\ hCalls = 2
    /\ firedAt = {"BEFORE_NODE"}
    /\ ePoint = "AFTER_LP_NODE"

---------------------------------------------------------------------------
(* C6: the translation of a HeurResult to the native result is total and   *)
(* injective (FoundSol to FOUNDSOL, NoSolFound to DIDNOTFIND, DidNotRun to *)
(* DIDNOTRUN, Delayed to DELAYED), and the native result a callback hands  *)
(* to the engine is the translation of what execute returned.              *)
C6_ResultTranslation ==
    /\ cbOutcome = "returned" =>
          /\ hRet = "FoundSol"   => hNativeRes = "SCIP_FOUNDSOL"
          /\ hRet = "NoSolFound" => hNativeRes = "SCIP_DIDNOTFIND"
          /\ hRet = "DidNotRun"  => hNativeRes = "SCIP_DIDNOTRUN"
          /\ hRet = "Delayed"    => hNativeRes = "SCIP_DELAYED"
          /\ hRet \in HeurResults
    /\ \A a \in HeurResults :
          From_HeurResult_for_SCIP_Result(a)
             \in {"SCIP_FOUNDSOL", "SCIP_DIDNOTFIND", "SCIP_DIDNOTRUN", "SCIP_DELAYED"}
    /\ \A a, b \in HeurResults :
          a # b => From_HeurResult_for_SCIP_Result(a) # From_HeurResult_for_SCIP_Result(b)

\* a Delayed has been handed to the engine as DELAYED
C6_Witness ==
    /\ cbOutcome = "returned"
    /\ hRet = "Delayed"
    /\ hNativeRes = "SCIP_DELAYED"

---------------------------------------------------------------------------
(* C5: a | b and a |= b hold exactly the union of the flags of a and b;    *)
(* the eleven named HeurTiming constants are pairwise distinct single      *)
(* bits, and BEFORE_PRESOL | AFTER_PROP_LOOP holds those two named flags   *)
(* and no other.                                                           *)
C5_BitOrIsUnion ==
    /\ maskOp \in {"bitor", "bitor_assign"}
          => Flags(timing) = Flags(prevTiming) \cup Flags(rhsMask)
    /\ \A n \in TimingNames : Cardinality(Flags(HeurTimingConst(n))) = 1
    /\ \A n1, n2 \in TimingNames :
          n1 # n2 => HeurTimingConst(n1) # HeurTimingConst(n2)
    /\ { n \in TimingNames :
            Flags(HeurTimingConst(n))
               \subseteq Flags(bitor(BEFORE_PRESOL, AFTER_PROP_LOOP)) }
          = {"BEFORE_PRESOL", "AFTER_PROP_LOOP"}

\* the mask of tests::test_heur has been built with |=
C5_Witness ==
    /\ maskOp = "bitor_assign"
    /\ prevTiming = BEFORE_PRESOL
    /\ rhsMask = AFTER_PROP_LOOP
    /\ timing = <<1280, 0, 0, 0>>

---------------------------------------------------------------------------
(* C7: no accessor returns a value derived from a negative native          *)
(* sentinel: var_probindex, lp_pos, lp_depth and strong_branching_node     *)
(* return None exactly when the native value is negative and otherwise     *)
(* Some of that same value; index, n_non_zeros, n_lp_non_zeros,            *)
(* n_strong_branches and age fail their assertion when it is negative and  *)
(* otherwise return that same value.                                       *)
C7_NoSentinelLeaks ==
    /\ accName \in OptionAccessors =>
          /\ (accOut = None) <=> (accNative < 0)
          /\ accNative >= 0 => accOut = Some(<<accNative, 0, 0, 0>>)
    /\ accName = "Col::strong_branching_node" =>
          /\ (accOut = None) <=> (accNative < 0)
          /\ accNative >= 0 => accOut = Some(accNative)
    /\ accName \in AssertAccessors =>
          /\ (accOut = Panic) <=> (accNative < 0)
          /\ accNative >= 0 => accOut = Value(<<accNative, 0, 0, 0>>)

\* lp_pos has turned the sentinel -1 into None, and age has refused it
C7_Witness ==
    \/ accName = "Col::lp_pos" /\ accNative = -1 /\ accOut = None
    \/ accName = "Col::age" /\ accNative = -1 /\ accOut = Panic

---------------------------------------------------------------------------
(* Variable::col                                                           *)

\* C1: in every phase Variable::col returns a Col exactly when the variable
\* is in the LP (what is_in_lp reports), and it reads the engine's column
\* locator only for a variable that is in the LP
C1_ColIffInLP ==
    opName = "Variable::col" =>
        /\ (opOut # None) <=> opInLP
        /\ opReadCol => opInLP

C1_Witness ==
    /\ opName = "Variable::col"
    /\ mPhase = "Solving"
    /\ opInLP
    /\ opOut = Some(<<"col", 1>>)

---------------------------------------------------------------------------
(* Ownership of the engine context                                         *)

\* C2: over any sequence of creating views (add_var, Variable::col,
\* Col::var, Col::rows, clone) and dropping the session and the views, the
\* strong count is the number of live owners and the engine context is torn
\* down exactly once, exactly when the last owner has been dropped
C2_TornDownWithLastOwner ==
    /\ strong = Owners
    /\ teardowns = IF Owners = 0 THEN 1 ELSE 0

C2_Witness ==
    /\ teardowns = 1
    /\ ~modelAlive
    /\ opName = "drop"
    /\ opView[1] = "col"

---------------------------------------------------------------------------
(* Equality of views                                                       *)

\* C8: two Variable views, or two Col views, are equal exactly when they
\* have the same locator, whatever the data of the objects behind them
C8_EqualityIsIdentity ==
    opName \in {"Variable::eq", "Col::eq"} => opOut = Value(opView = opOther)

\* two distinct columns that report the same data have been compared
C8_Witness ==
    /\ opName = "Col::eq"
    /\ opView # opOther
    /\ opOut = Value(FALSE)
    /\ ColData(NCol(opView)) = ColData(NCol(opOther))

---------------------------------------------------------------------------
(* End to end: one binary variable x with objective 1 and the constraint   *)
(* x = 1                                                                   *)

BinaryX == [lb |-> F(0), ub |-> F(1), obj |-> F(1), vtype |-> "Binary"]

OneBinaryProblem ==
    /\ given = <<BinaryX>>
    /\ Len(conss) = 1
    /\ conss[1].var = 1 /\ conss[1].lhs = F(1) /\ conss[1].rhs = F(1)

\* the caller's view of x, and the view model.vars()[0] gives a handler
CallersX == <<"var", 1>>
HandlersX == <<"var", 2>>

\* C9 as stated: in the solved session x has solution value 1.0 and the
\* Col derived from the caller's x is present
C9_Original ==
    (mPhase = "Solved" /\ OneBinaryProblem /\ ~conss[1].modifiable) =>
        /\ (opName = "Variable::sol_val" /\ opView = CallersX) => opOut = Value(F(1))
        /\ (opName = "Variable::col" /\ opView = CallersX) => opOut # None

\* C9: in the solved session the caller's x has solution value 1.0 and no
\* Col (it is the original variable, never a column); the Col of the
\* variable a FIRST_LP_SOLVED handler gets from model.vars() is present,
\* with primal solution 1.0, basis status Basic and the integral flag
C9_EndToEnd ==
    OneBinaryProblem =>
        /\ (mPhase = "Solved" /\ opView = CallersX) =>
              /\ (opName = "Variable::sol_val" /\ ~conss[1].modifiable) =>
                    opOut = Value(F(1))
              /\ opName = "Variable::col" => opOut = None
        /\ (ctl = "callback" /\ opName = "Variable::col" /\ opView = HandlersX) =>
              opOut = Some(<<"col", 1>>)
        /\ (ctl = "callback" /\ opView = <<"col", 1>>) =>
              /\ opName = "Col::primal_sol" => opOut = Value(F(1))
              /\ opName = "Col::basis_status" => opOut = Value("Basic")
              /\ opName = "Col::is_integral" => opOut = Value(TRUE)

C9_Witness ==
    /\ mPhase = "Solved"
    /\ OneBinaryProblem
    /\ ~conss[1].modifiable
    /\ opName = "Variable::sol_val"
    /\ opView = CallersX
    /\ opOut = Value(F(1))

---------------------------------------------------------------------------
(* Variable data before a solve                                            *)

\* what add_var was given for the bound or coefficient an accessor reads
GivenFor(name, a) ==
    CASE name \in {"Variable::lb", "Variable::lb_local"} -> a.lb
      [] name \in {"Variable::ub", "Variable::ub_local"} -> a.ub
      [] name = "Variable::obj" -> a.obj

\* C10: for a variable added with lower bound lb, upper bound ub and
\* objective coefficient obj, before any solve lb() and lb_local() return
\* lb, ub() and ub_local() return ub and obj() returns obj, and further
\* add_var calls change none of it
C10_RoundTrip ==
    (mPhase = "ProblemBuilding" /\ opName \in BoundAccessors) =>
        opOut = Value(GivenFor(opName, given[opView[2]]))

C10_Witness ==
    /\ mPhase = "ProblemBuilding"
    /\ Len(given) = 2
    /\ opName = "Variable::lb_local"
    /\ opView = <<"var", 1>>
    /\ given[1].vtype = "Continuous"
    /\ given[1].lb = Frac(1, 2)
    /\ opOut = Value(Frac(1, 2))

---------------------------------------------------------------------------
(* Callbacks and the engine's loop                                         *)

---------------------------------------------------------------------------
(* Phases of a session                                                     *)

\* C12 as stated: the stage moves only along ProblemBuilding -> Solving ->
\* Solved -> ProblemBuilding, the old and the new session value never
\* coexist, and add_var / add_cons run only on a ProblemBuilding session
C12_Original ==
    /\ [](\A s \in sess : s.tag = ePhase)
    /\ [](Cardinality(sess) <= 1)
    /\ [](pOp.op \in {"add_var", "add_cons"} => pOp.tag = "ProblemBuilding")
    /\ [][ePhase' # ePhase => <<ePhase, ePhase'>> \in PhaseEdges]_vars

\* C12: the stage moves only along ProblemBuilding -> Solving -> Solved ->
\* ProblemBuilding; every live session value carries the engine's stage
\* and there is at most one, so the old and the new never coexist; add_var
\* and add_cons never run on a Solved session (they do run on the Solving
\* session of a callback)
C12_PhaseTransitions ==
    /\ [](\A s \in sess : s.tag = ePhase)
    /\ [](Cardinality(sess) <= 1)
    /\ [](pOp.op \in {"add_var", "add_cons"} => pOp.tag # "Solved")
    /\ [][ePhase' # ePhase => <<ePhase, ePhase'>> \in PhaseEdges]_vars

C12_Witness ==
    /\ pSolves = 2
    /\ ePhase = "Solving"
    /\ pctl = "callback"
    /\ pOp = [op |-> "add_var", tag |-> "Solving"]

---------------------------------------------------------------------------
(* Width of a timing mask                                                  *)

\* C13: every HeurTiming value built from the named constants, From<u32>
\* and any combination of them with | and |= has no bit above bit 31, so
\* From<HeurTiming> for u32 loses no flag (converting back gives the same
\* mask), and a 32-bit integer converted to HeurTiming and back is the
\* same integer
C13_FitsIn32Bits ==
    /\ timing[3] = 0 /\ timing[4] = 0
    /\ From_u32_for_HeurTiming(From_HeurTiming_for_u32(timing)) = timing
    /\ Flags(From_u32_for_HeurTiming(From_HeurTiming_for_u32(timing))) = Flags(timing)
    /\ \A n \in U32Samples :
          From_HeurTiming_for_u32(From_u32_for_HeurTiming(n)) = n

\* a named constant has been combined with From<u32>(0xFFFFFFFF)
C13_Witness ==
    /\ maskOp \in {"bitor", "bitor_assign"}
    /\ prevTiming \in { HeurTimingConst(n) : n \in TimingNames }
    /\ rhsMask = From_u32_for_HeurTiming(<<65535, 65535>>)
    /\ timing = <<65535, 65535, 0, 0>>

=============================================================================
